---- MODULE Spec2Model ----
(***************************************************************************)
(* Model of ormar's QuerySet (src/ormar/queryset/queryset.py).             *)
(*                                                                         *)
(* Python objects live in `heap`: a list or dict is a heap cell holding a  *)
(* sequence, and a QuerySet keeps references (cell numbers) to its lists   *)
(* and dicts, so that two QuerySets holding the same object are visible as *)
(* such.  The database is the pair of tables `albums` (the root model,     *)
(* columns id, a, b) and `tracks` (column album is a foreign key, so that  *)
(* an album has the to-many relation "tracks").                            *)
(***************************************************************************)
EXTENDS Integers, Sequences, FiniteSets, TLC

VARIABLES heap,    \* Python heap: cell number -> contents of the list / dict
          descs,   \* every QuerySet constructed so far, in construction order
          calls,   \* history: calls[i] is the builder call that returned descs[i]
          albums,  \* table of the root model: set of rows [id, a, b]
          tracks,  \* table of the related model: set of rows [id, album]
          last,    \* record of the last terminal operation that returned or raised
          proc     \* the running create() coroutine: position and locals

vars == <<heap, descs, calls, albums, tracks, last, proc>>

-----------------------------------------------------------------------------
(* Bounds of the model *)

MaxDescs == 3      \* QuerySets kept in the builder specification
MaxLimit == 2      \* largest limit_count / offset passed to limit() / offset()
MaxTracks == 3     \* rows of the related table
MaxRows == 2       \* rows create() and bulk_create() may fill the root table with

-----------------------------------------------------------------------------
(* Python values *)

None == -1

Fields == {"a", "b"}

\* one compiled filter clause: field = value
Clause(f, v) == [field |-> f, value |-> v]

\* **kwargs of filter / exclude / get / all / delete, in keyword order
FilterKwargs ==
    { <<Clause("a", 1)>>, <<Clause("b", 1)>>, <<Clause("a", 1), Clause("b", 1)>> }

RelatedArgs == { <<"tracks">>, <<"artist">>, <<"tracks", "artist">> }

\* fields() / exclude_fields() argument: a list (or str, set) of names, or a dict
ColumnArgs ==
    { [kind |-> "list", names |-> <<"a">>],
      [kind |-> "list", names |-> <<"a", "b">>],
      [kind |-> "dict", names |-> <<"b">>] }

OrderArgs == { <<"a">>, <<"-id">>, <<"tracks__id">>, <<"a", "a">> }

\* the limit_raw_sql argument of limit() / offset(): None, True or False
RawArgs == {"None", "True", "False"}

Range(s) == { s[i] : i \in DOMAIN s }

Contains(s, x) == \E i \in DOMAIN s : s[i] = x

\* [x for x in s if Keep(x)]
RECURSIVE SelectNotIn(_, _)
SelectNotIn(s, present) ==
    IF s = <<>> THEN <<>>
    ELSE IF Contains(present, Head(s)) THEN SelectNotIn(Tail(s), present)
    ELSE <<Head(s)>> \o SelectNotIn(Tail(s), present)

\* every ordering of a finite set: list(set(...)) yields one of them
RECURSIVE Perms(_)
Perms(S) ==
    IF S = {} THEN { <<>> }
    ELSE UNION { { <<x>> \o p : p \in Perms(S \ {x}) } : x \in S }

-----------------------------------------------------------------------------
(* QuerySet construction *)

\* a fresh object holding v
Alloc(h, v) == [h |-> Append(h, v), r |-> Len(h) + 1]

\* `[] if x is None else x`
OrNewList(h, x) == IF x = None THEN Alloc(h, <<>>) ELSE [h |-> h, r |-> x]

\* `x or {}` / `x or []`: an empty (falsy) argument is replaced by a new object
OrEmpty(h, x) ==
    IF x = None \/ Len(h[x]) = 0 THEN Alloc(h, <<>>) ELSE [h |-> h, r |-> x]

__init__(h, a) ==
    LET fc == OrNewList(h, a.filter_clauses)
        ec == OrNewList(fc.h, a.exclude_clauses)
        sr == OrNewList(ec.h, a.select_related)
        pr == OrNewList(sr.h, a.prefetch_related)
        co == OrEmpty(pr.h, a.columns)
        xc == OrEmpty(co.h, a.exclude_columns)
        ob == OrEmpty(xc.h, a.order_bys)
    IN [h |-> ob.h,
        q |-> [model_cls         |-> a.model_cls,
               filter_clauses    |-> fc.r,
               exclude_clauses   |-> ec.r,
               _select_related   |-> sr.r,
               _prefetch_related |-> pr.r,
               limit_count       |-> a.limit_count,
               query_offset      |-> a.offset,
               _columns          |-> co.r,
               _exclude_columns  |-> xc.r,
               order_bys         |-> ob.r,
               limit_sql_raw     |-> a.limit_raw_sql]]

\* the keyword arguments every builder passes: everything taken over from self
SelfArgs(self) ==
    [model_cls        |-> self.model_cls,
     filter_clauses   |-> self.filter_clauses,
     exclude_clauses  |-> self.exclude_clauses,
     select_related   |-> self._select_related,
     limit_count      |-> self.limit_count,
     offset           |-> self.query_offset,
     columns          |-> self._columns,
     exclude_columns  |-> self._exclude_columns,
     order_bys        |-> self.order_bys,
     prefetch_related |-> self._prefetch_related,
     limit_raw_sql    |-> self.limit_sql_raw]

\* Model.objects: the descriptor __get__ returns for a model class
__get__(h, owner) ==
    __init__(h, [model_cls        |-> owner,
                 filter_clauses   |-> None,
                 exclude_clauses  |-> None,
                 select_related   |-> None,
                 limit_count      |-> None,
                 offset           |-> None,
                 columns          |-> None,
                 exclude_columns  |-> None,
                 order_bys        |-> None,
                 prefetch_related |-> None,
                 limit_raw_sql    |-> FALSE])

\* the components of a QuerySet that are lists / dicts
Components ==
    {"filter_clauses", "exclude_clauses", "_select_related", "_prefetch_related",
     "_columns", "_exclude_columns", "order_bys"}

\* what a QuerySet holds, by value
Contents(h, q) ==
    [model_cls         |-> q.model_cls,
     filter_clauses    |-> h[q.filter_clauses],
     exclude_clauses   |-> h[q.exclude_clauses],
     _select_related   |-> h[q._select_related],
     _prefetch_related |-> h[q._prefetch_related],
     limit_count       |-> q.limit_count,
     query_offset      |-> q.query_offset,
     _columns          |-> h[q._columns],
     _exclude_columns  |-> h[q._exclude_columns],
     order_bys         |-> h[q.order_bys],
     limit_sql_raw     |-> q.limit_sql_raw]

-----------------------------------------------------------------------------
(* Builder methods: each returns the new heap and the new QuerySet *)

\* the relations the field paths of kwargs cross: "tracks__id" is column id of
\* relation tracks
Crossed(kwargs) ==
    IF \E i \in DOMAIN kwargs : kwargs[i].field = "tracks__id" THEN <<"tracks">> ELSE <<>>

\* QueryClause(...).prepare_filter(**kwargs): the clauses of self followed by
\* the clauses compiled from kwargs ("pk" names the primary key column), and
\* the select_related list extended by the relations kwargs cross, both as
\* new lists
prepare_filter(h, self, kwargs) ==
    [filter_clauses |-> h[self.filter_clauses] \o
                        [i \in DOMAIN kwargs |->
                            IF kwargs[i].field = "pk"
                            THEN Clause("id", kwargs[i].value)
                            ELSE kwargs[i]],
     select_related |-> h[self._select_related] \o
                        SelectNotIn(Crossed(kwargs), h[self._select_related])]

\* filter that extends the clause list of self in place
filter_inplace(h, self, _exclude, kwargs) ==
    LET qryclause == prepare_filter(h, self, kwargs)
    IN __init__([h EXCEPT ![self.filter_clauses] = qryclause.filter_clauses],
                SelfArgs(self))

\* filter that keeps the select_related list of self
filter_own_select_related(h, self, _exclude, kwargs) ==
    LET qryclause == prepare_filter(h, self, kwargs)
        fc == Alloc(h, qryclause.filter_clauses)
    IN __init__(fc.h,
                [SelfArgs(self) EXCEPT
                    !.filter_clauses  = IF _exclude THEN self.filter_clauses ELSE fc.r,
                    !.exclude_clauses = IF _exclude THEN fc.r ELSE self.exclude_clauses])

filter(h, self, _exclude, kwargs) ==
    LET qryclause == prepare_filter(h, self, kwargs)
        fc == Alloc(h, qryclause.filter_clauses)
        sr == Alloc(fc.h, qryclause.select_related)
    IN __init__(sr.h,
                [SelfArgs(self) EXCEPT
                    !.filter_clauses  = IF _exclude THEN self.filter_clauses ELSE fc.r,
                    !.exclude_clauses = IF _exclude THEN fc.r ELSE self.exclude_clauses,
                    !.select_related  = sr.r])

\* exclude without `_exclude=True`: the clauses land among the filter clauses
exclude_flag_dropped(h, self, kwargs) == filter(h, self, FALSE, kwargs)

exclude(h, self, kwargs) == filter(h, self, TRUE, kwargs)

\* `order` is the order list(set(...)) happens to produce
select_related(h, self, related, order) ==
    LET rel == Alloc(h, order)
    IN __init__(rel.h, [SelfArgs(self) EXCEPT !.select_related = rel.r])

prefetch_related(h, self, related, order) ==
    LET rel == Alloc(h, order)
    IN __init__(rel.h, [SelfArgs(self) EXCEPT !.prefetch_related = rel.r])

\* utils.update_dict_from_list / utils.update: the mask with the names added
update_dict_from_list(curr_dict, names) == curr_dict \o SelectNotIn(names, curr_dict)

update(current_dict, names) == current_dict \o SelectNotIn(names, current_dict)

fields(h, self, columns) ==
    LET current_included ==
            Alloc(h, IF columns.kind # "dict"
                     THEN update_dict_from_list(h[self._columns], columns.names)
                     ELSE update(h[self._columns], columns.names))
    IN __init__(current_included.h,
                [SelfArgs(self) EXCEPT !.columns = current_included.r])

exclude_fields(h, self, columns) ==
    LET current_excluded ==
            Alloc(h, IF columns.kind # "dict"
                     THEN update_dict_from_list(h[self._exclude_columns], columns.names)
                     ELSE update(h[self._exclude_columns], columns.names))
    IN __init__(current_excluded.h,
                [SelfArgs(self) EXCEPT !.exclude_columns = current_excluded.r])

\* order_by with `self.order_bys += [...]`: the list of self is extended in place
order_by_inplace(h, self, columns) ==
    LET ext == [h EXCEPT ![self.order_bys] = @ \o SelectNotIn(columns, @)]
    IN __init__(ext, SelfArgs(self))

order_by(h, self, columns) ==
    LET order_bys == Alloc(h, h[self.order_bys] \o SelectNotIn(columns, h[self.order_bys]))
    IN __init__(order_bys.h, [SelfArgs(self) EXCEPT !.order_bys = order_bys.r])

RawFlag(self, limit_raw_sql) ==
    IF limit_raw_sql = "None" THEN self.limit_sql_raw ELSE limit_raw_sql = "True"

\* limit that does not pass the offset of self on
limit_resets_offset(h, self, limit_count, limit_raw_sql) ==
    __init__(h, [SelfArgs(self) EXCEPT !.limit_count = limit_count,
                                       !.offset = None,
                                       !.limit_raw_sql = RawFlag(self, limit_raw_sql)])

limit(h, self, limit_count, limit_raw_sql) ==
    __init__(h, [SelfArgs(self) EXCEPT !.limit_count = limit_count,
                                       !.limit_raw_sql = RawFlag(self, limit_raw_sql)])

\* offset that does not keep the number passed
offset_dropped(h, self, offset_, limit_raw_sql) ==
    __init__(h, [SelfArgs(self) EXCEPT !.limit_raw_sql = RawFlag(self, limit_raw_sql)])

offset(h, self, offset_, limit_raw_sql) ==
    __init__(h, [SelfArgs(self) EXCEPT !.offset = offset_,
                                       !.limit_raw_sql = RawFlag(self, limit_raw_sql)])

-----------------------------------------------------------------------------
(* The database: executing a compiled select expression *)

Vals == {1, 2}

\* the joined columns of a root row that has no related row (LEFT OUTER JOIN)
NoTrack == [id |-> None, album |-> None]

TracksOf(r) == { t \in tracks : t.album = r.id }

\* FROM: the root table, joined with every select-related relation
Joined(select_related_) ==
    IF Contains(select_related_, "tracks")
    THEN UNION { IF TracksOf(r) = {}
                 THEN { [root |-> r, track |-> NoTrack] }
                 ELSE { [root |-> r, track |-> t] : t \in TracksOf(r) } : r \in albums }
    ELSE { [root |-> r, track |-> NoTrack] : r \in albums }

AllHold(clauses, r) == \A i \in DOMAIN clauses : r[clauses[i].field] = clauses[i].value

\* WHERE: the filter clauses ANDed, and NOT (the exclude clauses ANDed)
Where(expr, r) ==
    /\ AllHold(expr.filter_clauses, r)
    /\ expr.exclude_clauses = <<>> \/ ~AllHold(expr.exclude_clauses, r)

\* ORDER BY: the value one sort specification gives a row ("-" is descending)
OrderKey(col, row) ==
    CASE col = "id"         -> row.root.id
      [] col = "-id"        -> 0 - row.root.id
      [] col = "a"          -> row.root.a
      [] col = "-a"         -> 0 - row.root.a
      [] col = "tracks__id" -> row.track.id
      [] OTHER              -> 0

\* the sort specifications, then the primary keys of every table involved
SortKey(order_bys_, row) ==
    [i \in 1..Len(order_bys_) |-> OrderKey(order_bys_[i], row)]
        \o <<row.root.id, row.track.id>>

LexLess(k1, k2) ==
    \E i \in DOMAIN k1 : k1[i] < k2[i] /\ \A j \in 1..(i - 1) : k1[j] = k2[j]

RECURSIVE SortRows(_, _)
SortRows(S, order_bys_) ==
    IF S = {} THEN <<>>
    ELSE LET m == CHOOSE r \in S : \A o \in S \ {r} :
                      LexLess(SortKey(order_bys_, r), SortKey(order_bys_, o))
         IN <<m>> \o SortRows(S \ {m}, order_bys_)

\* the distinct root primary keys of a row sequence, in order of first occurrence
RECURSIVE RootIds(_)
RootIds(rows) ==
    IF rows = <<>> THEN <<>>
    ELSE LET front == RootIds(SubSeq(rows, 1, Len(rows) - 1))
             id == rows[Len(rows)].root.id
         IN IF Contains(front, id) THEN front ELSE Append(front, id)

Min(x, y) == IF x < y THEN x ELSE y

\* s[off : off + lim]
Slice(s, off, lim) ==
    SubSeq(s, off + 1, IF lim = None THEN Len(s) ELSE Min(Len(s), off + lim))

\* LIMIT / OFFSET: on the physical rows when limit_raw_sql is set, else on the
\* logical rows (the root models)
Paginate(rows, limit_count, offset_, limit_raw_sql) ==
    LET off == IF offset_ = None THEN 0 ELSE offset_
    IN IF limit_raw_sql THEN Slice(rows, off, limit_count)
       ELSE LET keep == Range(Slice(RootIds(rows), off, limit_count))
            IN SelectSeq(rows, LAMBDA row : row.root.id \in keep)

\* the columns of a joined row by the names clauses use
Flat(row) ==
    [id |-> row.root.id, a |-> row.root.a, b |-> row.root.b,
     tracks__id |-> row.track.id]

\* Query(...).build_select_expression() run by database.fetch_all(expr)
fetch_all(expr) ==
    Paginate(SortRows({ row \in Joined(expr.select_related) : Where(expr, Flat(row)) },
                      expr.order_bys),
             expr.limit_count, expr.offset, expr.limit_raw_sql)

-----------------------------------------------------------------------------
(* Reading: rows to models *)

\* `x or y` on numbers: None and 0 are falsy
PyOr(x, y) == IF x = None \/ x = 0 THEN y ELSE x

\* without the QuerySet's own limit_count: limit_count=limit
build_select_expression_own_limit_dropped(h, self, limit_, offset_, order_bys_) ==
    [select_related  |-> h[self._select_related],
     filter_clauses  |-> h[self.filter_clauses],
     exclude_clauses |-> h[self.exclude_clauses],
     offset          |-> PyOr(offset_, self.query_offset),
     limit_count     |-> limit_,
     fields          |-> h[self._columns],
     exclude_fields  |-> h[self._exclude_columns],
     order_bys       |-> IF order_bys_ = <<>> THEN h[self.order_bys] ELSE order_bys_,
     limit_raw_sql   |-> self.limit_sql_raw]

build_select_expression(h, self, limit_, offset_, order_bys_) ==
    [select_related  |-> h[self._select_related],
     filter_clauses  |-> h[self.filter_clauses],
     exclude_clauses |-> h[self.exclude_clauses],
     offset          |-> PyOr(offset_, self.query_offset),
     limit_count     |-> PyOr(limit_, self.limit_count),
     fields          |-> h[self._columns],
     exclude_fields  |-> h[self._exclude_columns],
     order_bys       |-> IF order_bys_ = <<>> THEN h[self.order_bys] ELSE order_bys_,
     limit_raw_sql   |-> self.limit_sql_raw]

\* a column of the root model as the masks let it through
Masked(row, f, fields_, exclude_fields_) ==
    IF (fields_ # <<>> /\ ~Contains(fields_, f)) \/ Contains(exclude_fields_, f)
    THEN None
    ELSE row.root[f]

\* Model.from_row: one model per row, with the related model of the row, if any
from_row(row, select_related_, fields_, exclude_fields_) ==
    [id     |-> row.root.id,
     a      |-> Masked(row, "a", fields_, exclude_fields_),
     b      |-> Masked(row, "b", fields_, exclude_fields_),
     tracks |-> IF Contains(select_related_, "tracks") /\ row.track.id # None
                THEN <<row.track.id>>
                ELSE <<>>]

\* Model.merge_instances_list: one model per primary key, at the place of its
\* first occurrence, its related models collected in row order
RECURSIVE merge_instances_list(_)
merge_instances_list(result_rows) ==
    IF result_rows = <<>> THEN <<>>
    ELSE LET front == merge_instances_list(SubSeq(result_rows, 1, Len(result_rows) - 1))
             model == result_rows[Len(result_rows)]
         IN IF \E i \in DOMAIN front : front[i].id = model.id
            THEN [i \in DOMAIN front |->
                    IF front[i].id = model.id
                    THEN [front[i] EXCEPT
                            !.tracks = @ \o SelectNotIn(model.tracks, @)]
                    ELSE front[i]]
            ELSE Append(front, model)

\* without the merge: one model per physical row
_process_query_result_rows_unmerged(h, self, rows) ==
    [i \in DOMAIN rows |->
        from_row(rows[i], h[self._select_related], h[self._columns],
                 h[self._exclude_columns])]

_process_query_result_rows(h, self, rows) ==
    LET result_rows ==
            [i \in DOMAIN rows |->
                from_row(rows[i], h[self._select_related], h[self._columns],
                         h[self._exclude_columns])]
    IN IF result_rows # <<>> THEN merge_instances_list(result_rows) ELSE result_rows

\* a set of numbers as an ascending sequence
RECURSIVE Ascending(_)
Ascending(S) ==
    IF S = {} THEN <<>>
    ELSE LET m == CHOOSE x \in S : \A y \in S : x <= y
         IN <<m>> \o Ascending(S \ {m})

\* without the second pass: the models as the main query gave them
_prefetch_related_models_skipped(h, self, models) == models

\* PrefetchQuery(...).prefetch_related(models, rows): one more query per
\* relation, its rows attached to the models already built
_prefetch_related_models(h, self, models) ==
    [i \in DOMAIN models |->
        IF Contains(h[self._prefetch_related], "tracks")
        THEN [models[i] EXCEPT !.tracks = Ascending({ t.id : t \in TracksOf(models[i]) })]
        ELSE models[i]]

\* raises when more than two models are returned
check_single_result_rows_count_off_by_one(rows) ==
    IF rows = <<>> THEN "NoMatch"
    ELSE IF Len(rows) > 2 THEN "MultipleMatches"
    ELSE "ok"

\* the exception raised, or "ok"
check_single_result_rows_count(rows) ==
    IF rows = <<>> THEN "NoMatch"
    ELSE IF Len(rows) > 1 THEN "MultipleMatches"
    ELSE "ok"

\* self.filter(**kwargs) when kwargs are passed, else self
Filtered(h, self, kwargs) ==
    IF kwargs # <<>> THEN filter(h, self, FALSE, kwargs) ELSE [h |-> h, q |-> self]

all(h, self, kwargs) ==
    LET t == Filtered(h, self, kwargs)
        expr == build_select_expression(t.h, t.q, None, None, <<>>)
        rows == fetch_all(expr)
        result_rows == _process_query_result_rows(t.h, t.q, rows)
    IN [rows    |-> rows,
        outcome |-> "ok",
        value   |-> IF t.h[t.q._prefetch_related] # <<>> /\ result_rows # <<>>
                    THEN _prefetch_related_models(t.h, t.q, result_rows)
                    ELSE result_rows]

\* get that sorts by the primary key ascending when there is no filter
get_ascending(h, self, kwargs) ==
    LET t == Filtered(h, self, kwargs)
        expr == IF t.h[t.q.filter_clauses] = <<>>
                THEN build_select_expression(t.h, t.q, 1, None,
                                             <<"id">> \o t.h[t.q.order_bys])
                ELSE build_select_expression(t.h, t.q, None, None, <<>>)
        rows == fetch_all(expr)
        processed_rows == _process_query_result_rows(t.h, t.q, rows)
        outcome == check_single_result_rows_count(processed_rows)
    IN [rows    |-> rows,
        outcome |-> outcome,
        value   |-> IF outcome = "ok" THEN <<processed_rows[1]>> ELSE <<>>]

get(h, self, kwargs) ==
    LET t == Filtered(h, self, kwargs)
        expr == IF t.h[t.q.filter_clauses] = <<>>
                THEN build_select_expression(t.h, t.q, 1, None,
                                             <<"-id">> \o t.h[t.q.order_bys])
                ELSE build_select_expression(t.h, t.q, None, None, <<>>)
        rows == fetch_all(expr)
        processed_rows == _process_query_result_rows(t.h, t.q, rows)
        prefetched == IF t.h[t.q._prefetch_related] # <<>> /\ processed_rows # <<>>
                      THEN _prefetch_related_models(t.h, t.q, processed_rows)
                      ELSE processed_rows
        outcome == check_single_result_rows_count(prefetched)
    IN [rows    |-> rows,
        outcome |-> outcome,
        value   |-> IF outcome = "ok" THEN <<prefetched[1]>> ELSE <<>>]

-----------------------------------------------------------------------------
(* Builder calls as steps *)

\* the call returned r: the new QuerySet is recorded with the call that made it
Built(r, self, op, args) ==
    /\ heap' = r.h
    /\ descs' = Append(descs, r.q)
    /\ calls' = Append(calls, [op |-> op, self |-> self, args |-> args])
    /\ UNCHANGED <<albums, tracks, last, proc>>

Filter(S) ==
    \E self \in S, kwargs \in FilterKwargs :
        Built(filter(heap, descs[self], FALSE, kwargs), self, "filter", kwargs)

Exclude(S) ==
    \E self \in S, kwargs \in FilterKwargs :
        Built(exclude(heap, descs[self], kwargs), self, "exclude", kwargs)

SelectRelated(S, Args) ==
    \E self \in S, related \in Args :
        \E order \in Perms(Range(heap[descs[self]._select_related]) \cup Range(related)) :
            Built(select_related(heap, descs[self], related, order), self, "select_related", related)

PrefetchRelated(S, Args) ==
    \E self \in S, related \in Args :
        \E order \in Perms(Range(heap[descs[self]._prefetch_related]) \cup Range(related)) :
            Built(prefetch_related(heap, descs[self], related, order), self,
                  "prefetch_related", related)

FieldsCall(S) ==
    \E self \in S, columns \in ColumnArgs :
        Built(fields(heap, descs[self], columns), self, "fields", columns)

ExcludeFields(S) ==
    \E self \in S, columns \in ColumnArgs :
        Built(exclude_fields(heap, descs[self], columns), self, "exclude_fields", columns)

OrderBy(S, Args) ==
    \E self \in S, columns \in Args :
        Built(order_by(heap, descs[self], columns), self, "order_by", columns)

Limit(S) ==
    \E self \in S, n \in 0..MaxLimit, raw \in RawArgs :
        Built(limit(heap, descs[self], n, raw), self, "limit", [n |-> n, raw |-> raw])

Offset(S) ==
    \E self \in S, n \in 0..MaxLimit, raw \in RawArgs :
        Built(offset(heap, descs[self], n, raw), self, "offset", [n |-> n, raw |-> raw])

-----------------------------------------------------------------------------
(* Specification of the builder: any call on any QuerySet made so far *)

NoOp == [op |-> "none"]

Idle == [pc |-> "idle"]

InitObjects ==
    LET r == __get__(<<>>, "Album")
    IN /\ heap = r.h
       /\ descs = <<r.q>>
       /\ calls = <<[op |-> "objects", self |-> 0, args |-> <<>>]>>

InitBuilder ==
    /\ InitObjects
    /\ albums = {}
    /\ tracks = {}
    /\ last = NoOp
    /\ proc = Idle

\* the QuerySets a caller may hold
AnyDesc == IF Len(descs) < MaxDescs THEN DOMAIN descs ELSE {}

NextBuilder ==
    \/ Filter(AnyDesc)
    \/ Exclude(AnyDesc)
    \/ SelectRelated(AnyDesc, RelatedArgs)
    \/ PrefetchRelated(AnyDesc, RelatedArgs)
    \/ FieldsCall(AnyDesc)
    \/ ExcludeFields(AnyDesc)
    \/ OrderBy(AnyDesc, OrderArgs)
    \/ Limit(AnyDesc)
    \/ Offset(AnyDesc)

SpecBuilder == InitBuilder /\ [][NextBuilder]_vars

\* the QuerySet a call was made on
Parent(j) == calls[j].self

\* C1: a builder call leaves the contents of every existing QuerySet (filter
\* and exclude clauses, select-related and prefetch-related paths, both masks,
\* order-by list, limit and offset) as they were before the call.
C1_Immutable ==
    [][\A i \in DOMAIN descs :
          Contents(heap', descs'[i]) = Contents(heap, descs[i])]_vars

\* a QuerySet with an order-by list has had order_by called on it, and the
\* returned QuerySet has a longer list
C1_Witness ==
    \E j \in DOMAIN descs :
        /\ calls[j].op = "order_by"
        /\ Len(heap[descs[Parent(j)].order_bys]) > 0
        /\ Len(heap[descs[j].order_bys]) > Len(heap[descs[Parent(j)].order_bys])

\* C2: the QuerySet a builder call returns shares no list or dict object with
\* the QuerySet the call was made on.
C2_NoSharedObject ==
    \A j \in DOMAIN descs :
        Parent(j) # 0 =>
            \A c \in Components : descs[j][c] # descs[Parent(j)][c]

-----------------------------------------------------------------------------
(* Terminal read operations as steps, on the QuerySet built last *)

Cur == Len(descs)

All(Kw) ==
    \E kwargs \in Kw :
        /\ last' = [op |-> "all", q |-> Cur, kwargs |-> kwargs]
                       @@ all(heap, descs[Cur], kwargs)
        /\ UNCHANGED <<heap, descs, calls, albums, tracks, proc>>

Get(Kw) ==
    \E kwargs \in Kw :
        /\ last' = [op |-> "get", q |-> Cur, kwargs |-> kwargs]
                       @@ get(heap, descs[Cur], kwargs)
        /\ UNCHANGED <<heap, descs, calls, albums, tracks, proc>>

\* a chain of builder calls, each method at most once, before the terminal call
NotCalled(op) == \A j \in DOMAIN calls : calls[j].op # op

Chain(op) == IF last = NoOp /\ NotCalled(op) THEN {Cur} ELSE {}

AlbumIds == {1, 2}

\* the tables an application can have filled: primary keys 1..n, every track
\* belonging to an album
AlbumTables(Rows) ==
    { T \in SUBSET Rows :
        /\ \A r1, r2 \in T : r1.id = r2.id => r1 = r2
        /\ \A r \in T : \A i \in 1..r.id : \E r2 \in T : r2.id = i }

TrackTables(A) ==
    { T \in SUBSET [id : 1..MaxTracks, album : { r.id : r \in A }] :
        /\ \A t1, t2 \in T : t1.id = t2.id => t1 = t2
        /\ \A t \in T : \A i \in 1..t.id : \E t2 \in T : t2.id = i }

InitTables(Rows) ==
    /\ albums \in AlbumTables(Rows)
    /\ tracks \in TrackTables(albums)

-----------------------------------------------------------------------------
(* Specification of the join: select_related over the to-many relation *)

InitJoin ==
    /\ InitObjects
    /\ InitTables([id : AlbumIds, a : {1}, b : {1}])
    /\ last = NoOp
    /\ proc = Idle

NextJoin ==
    \/ SelectRelated(Chain("select_related"), { <<"tracks">> })
    \/ OrderBy(Chain("order_by"), { <<"-id">>, <<"tracks__id">> })
    \/ Limit(Chain("limit"))
    \/ All({ <<>> })
    \/ Get({ <<>> })

SpecJoin == InitJoin /\ [][NextJoin]_vars

\* the QuerySet the last terminal operation ran on, after its own filter(**kwargs)
Effective == Contents(Filtered(heap, descs[last.q], last.kwargs).h,
                      Filtered(heap, descs[last.q], last.kwargs).q)

\* the related rows that came with root primary key id, in physical row order
RelatedInRows(rows, id) ==
    LET of == SelectSeq(rows, LAMBDA row : row.root.id = id /\ row.track.id # None)
    IN [i \in DOMAIN of |-> of[i].track.id]

\* C3: all() with select_related over the one-to-many relation returns one root
\* instance per distinct root primary key, at the position of the key's first
\* occurrence in the rows, with every related row of the key in row order.
C3_MergedRoots ==
    (last.op = "all" /\ Contains(Effective._select_related, "tracks")) =>
        /\ [i \in DOMAIN last.value |-> last.value[i].id] = RootIds(last.rows)
        /\ \A i \in DOMAIN last.value :
              last.value[i].tracks = RelatedInRows(last.rows, last.value[i].id)

\* the rows of one root are interleaved with the rows of another
C3_Witness ==
    /\ last.op = "all"
    /\ Contains(Effective._select_related, "tracks")
    /\ \E i, j, k \in DOMAIN last.rows :
          /\ i < j /\ j < k
          /\ last.rows[i].root.id = last.rows[k].root.id
          /\ last.rows[i].root.id # last.rows[j].root.id
    /\ \E i \in DOMAIN last.value : Len(last.value[i].tracks) >= 2

\* the root rows the filter and exclude clauses of a QuerySet let through
Matching(q) == { r \in albums : Where(q, r) }

\* C8: with the raw-row flag unset and the to-many join, limit(n).all() returns
\* min(n, R) root instances, R the number of matching roots.
C8_LogicalLimit ==
    ( /\ last.op = "all"
      /\ Contains(Effective._select_related, "tracks")
      /\ Effective.limit_count # None
      /\ Effective.query_offset = None
      /\ ~Effective.limit_sql_raw ) =>
        Len(last.value) = Min(Effective.limit_count, Cardinality(Matching(Effective)))

\* limit(1): the first root fans out to several physical rows, another root follows
C8_Witness ==
    /\ last.op = "all"
    /\ Contains(Effective._select_related, "tracks")
    /\ Effective.limit_count = 1
    /\ Effective.query_offset = None
    /\ ~Effective.limit_sql_raw
    /\ Len(last.rows) >= 2
    /\ Cardinality(Matching(Effective)) >= 2
    /\ Len(last.value) = 1

-----------------------------------------------------------------------------
(* Specification of filtering: filter, exclude and the single-result check *)

InitFilter ==
    /\ InitObjects
    /\ InitTables([id : AlbumIds, a : Vals, b : Vals])
    /\ last = NoOp
    /\ proc = Idle

NextFilter ==
    \/ Filter(Chain("filter"))
    \/ Exclude(Chain("exclude"))
    \/ SelectRelated(Chain("select_related"), { <<"tracks">> })
    \/ All({ <<>> })
    \/ Get({ <<>>, <<Clause("a", 1)>> })

SpecFilter == InitFilter /\ [][NextFilter]_vars

\* C4: get() on a QuerySet with a filter clause raises NoMatch when no root
\* matches, MultipleMatches when two or more distinct roots match, and returns
\* the one root otherwise.
C4_SingleResult ==
    (last.op = "get" /\ Effective.filter_clauses # <<>>) =>
        LET n == Cardinality(Matching(Effective))
        IN /\ n = 0 => last.outcome = "NoMatch"
           /\ n >= 2 => last.outcome = "MultipleMatches"
           /\ n = 1 => /\ last.outcome = "ok"
                       /\ \E r \in Matching(Effective) : last.value[1].id = r.id
           /\ "NoMatch" # "MultipleMatches"

\* one root comes back in several physical rows and is returned
C4_Witness ==
    /\ last.op = "get"
    /\ Effective.filter_clauses # <<>>
    /\ Len(last.rows) >= 2
    /\ last.outcome = "ok"

\* the exclude calls of the chain
ExcludeCalls == { j \in DOMAIN calls : calls[j].op = "exclude" }

\* C7: after a single exclude(a=X, b=Y), all() returns the rows for which
\* NOT (a=X AND b=Y): a row matching one of the two conditions stays.
C7_ExcludeConjunction ==
    (last.op = "all" /\ \E j \in ExcludeCalls : Len(calls[j].args) = 2) =>
        LET j == CHOOSE j \in ExcludeCalls : TRUE
            kw == calls[j].args
        IN { last.value[i].id : i \in DOMAIN last.value } =
               { r.id : r \in { r \in albums :
                    /\ AllHold(Effective.filter_clauses, r)
                    /\ ~(r[kw[1].field] = kw[1].value /\ r[kw[2].field] = kw[2].value) } }

\* a row matching only one condition is returned, a row matching both is not
C7_Witness ==
    /\ last.op = "all"
    /\ \E j \in ExcludeCalls :
          /\ Len(calls[j].args) = 2
          /\ \E r \in albums :
                /\ r[calls[j].args[1].field] = calls[j].args[1].value
                /\ r[calls[j].args[2].field] # calls[j].args[2].value
                /\ \E i \in DOMAIN last.value : last.value[i].id = r.id
          /\ \E r \in albums :
                /\ r[calls[j].args[1].field] = calls[j].args[1].value
                /\ r[calls[j].args[2].field] = calls[j].args[2].value
                /\ \A i \in DOMAIN last.value : last.value[i].id # r.id

-----------------------------------------------------------------------------
(* update() and delete() *)

\* the row with the values of `updates` set
Apply(r, updates) ==
    [f \in DOMAIN r |->
        IF \E i \in DOMAIN updates : updates[i].field = f
        THEN updates[CHOOSE i \in DOMAIN updates :
                        /\ updates[i].field = f
                        /\ \A j \in DOMAIN updates : updates[j].field = f => j <= i].value
        ELSE r[f]]

\* update without the check for a filter
update_unguarded(h, self, each, kwargs, table) ==
    LET self_fields == Fields \cup {"id", "tracks"}
        updates == SelectSeq(kwargs, LAMBDA c : c.field \in self_fields)
        hit == { r \in table : AllHold(h[self.filter_clauses], r) }
    IN [outcome |-> "ok",
        albums  |-> (table \ hit) \cup { Apply(r, updates) : r \in hit },
        value   |-> Cardinality(hit),
        calls   |-> <<"execute">>]

\* update(each, **kwargs) on the rows of `table`: the outcome, the table after
\* it, the value returned and the database round trips made
update_rows(h, self, each, kwargs, table) ==
    LET self_fields == Fields \cup {"id", "tracks"}
        updates == SelectSeq(kwargs, LAMBDA c : c.field \in self_fields)
        hit == { r \in table : AllHold(h[self.filter_clauses], r) }
    IN IF ~each /\ h[self.filter_clauses] = <<>>
       THEN [outcome |-> "QueryDefinitionError", albums |-> table, value |-> None,
             calls |-> <<>>]
       ELSE [outcome |-> "ok",
             albums  |-> (table \ hit) \cup { Apply(r, updates) : r \in hit },
             value   |-> Cardinality(hit),
             calls   |-> <<"execute">>]

\* delete(each, **kwargs): with kwargs it is self.filter(**kwargs).delete()
delete(h, self, each, kwargs, table) ==
    LET t == Filtered(h, self, kwargs)
        each_ == IF kwargs # <<>> THEN FALSE ELSE each
        hit == { r \in table : AllHold(t.h[t.q.filter_clauses], r) }
    IN IF ~each_ /\ t.h[t.q.filter_clauses] = <<>>
       THEN [outcome |-> "QueryDefinitionError", albums |-> table, value |-> None,
             calls |-> <<>>]
       ELSE [outcome |-> "ok", albums |-> table \ hit, value |-> Cardinality(hit),
             calls |-> <<"execute">>]

\* the primary keys of the models a read returned
Selected(r) == { r.value[i].id : i \in DOMAIN r.value }

\* the values update() is given; "zz" is no field of the model
UpdateKwargs == { <<Clause("a", 2)>>, <<Clause("zz", 1), Clause("b", 2)>> }

Update ==
    \E each \in BOOLEAN, kwargs \in UpdateKwargs :
        LET r == update_rows(heap, descs[Cur], each, kwargs, albums)
        IN /\ albums' = r.albums
           /\ last' = [op |-> "update", q |-> Cur, each |-> each, kwargs |-> kwargs,
                       before |-> albums, outcome |-> r.outcome, value |-> r.value,
                       calls |-> r.calls,
                       selected |-> Selected(all(heap, descs[Cur], <<>>))]
           /\ UNCHANGED <<heap, descs, calls, tracks, proc>>

Delete ==
    \E each \in BOOLEAN, kwargs \in { <<>>, <<Clause("a", 1)>> } :
        LET r == delete(heap, descs[Cur], each, kwargs, albums)
        IN /\ albums' = r.albums
           /\ last' = [op |-> "delete", q |-> Cur, each |-> each, kwargs |-> kwargs,
                       before |-> albums, outcome |-> r.outcome, value |-> r.value,
                       calls |-> r.calls,
                       selected |-> Selected(all(heap, descs[Cur], kwargs))]
           /\ UNCHANGED <<heap, descs, calls, tracks, proc>>

InitUpdate ==
    /\ InitObjects
    /\ albums \in AlbumTables([id : AlbumIds, a : Vals, b : Vals])
    /\ tracks = {}
    /\ last = NoOp
    /\ proc = Idle

NextUpdate ==
    \/ Filter(Chain("filter"))
    \/ Exclude(Chain("exclude"))
    \/ Update
    \/ Delete

SpecUpdate == InitUpdate /\ [][NextUpdate]_vars

\* C5: update() and delete() on a QuerySet without filter clauses raise
\* QueryDefinitionError when each is not set, before any database round trip
\* and leaving the table as it was; with each=True they succeed on every row.
C5_FilterOrEach ==
    ( /\ last.op \in {"update", "delete"}
      /\ heap[descs[last.q].filter_clauses] = <<>>
      /\ last.op = "delete" => last.kwargs = <<>> ) =>
        IF ~last.each
        THEN /\ last.outcome = "QueryDefinitionError"
             /\ last.calls = <<>>
             /\ albums = last.before
        ELSE /\ last.outcome = "ok"
             /\ last.value = Cardinality(last.before)
             /\ last.op = "delete" => albums = {}
             /\ last.op = "update" =>
                   albums = { Apply(r, SelectSeq(last.kwargs,
                                                 LAMBDA c : c.field \in Fields)) :
                              r \in last.before }

\* update() without each was refused on a table with rows
C5_Witness ==
    /\ last.op = "update"
    /\ heap[descs[last.q].filter_clauses] = <<>>
    /\ ~last.each
    /\ last.outcome = "QueryDefinitionError"
    /\ Cardinality(albums) >= 2
    /\ \E r \in albums : r.a # 2

-----------------------------------------------------------------------------
(* create(), bulk_create() and bulk_update() *)

\* the value the database fills column b with when an insert leaves it out
ServerDefault == 1

\* model fields declared with a server default
ServerDefaultFields == {"b"}

Max(S) == CHOOSE x \in S : \A y \in S : y <= x

\* self.model(**kwargs): a new, unsaved instance; fields not given are None
Model(kwargs) ==
    [id    |-> IF "id" \in DOMAIN kwargs THEN kwargs.id ELSE None,
     a     |-> kwargs.a,
     b     |-> IF "b" \in DOMAIN kwargs THEN kwargs.b ELSE None,
     saved |-> FALSE]

\* objt.dict(): the field values of an instance
dict(objt) == [f \in {"id", "a", "b"} |-> objt[f]]

\* prepare_model_to_save: an autoincrement primary key that is None is left
\* out of the insert
prepare_model_to_save(new_kwargs) ==
    IF "id" \in DOMAIN new_kwargs /\ new_kwargs.id = None
    THEN [f \in DOMAIN new_kwargs \ {"id"} |-> new_kwargs[f]]
    ELSE new_kwargs

\* database.execute(table.insert().values(**values)): the table with the new
\* row and the primary key of that row
Insert(table, values) ==
    LET id == IF "id" \in DOMAIN values THEN values.id
              ELSE IF table = {} THEN 1 ELSE Max({ r.id : r \in table }) + 1
    IN [table |-> table \cup
                  {[id |-> id, a |-> values.a,
                    b  |-> IF "b" \in DOMAIN values THEN values.b
                           ELSE ServerDefault]},
        pk |-> id]

\* create() up to the suspension on the pre_save signal
create_start(kwargs) ==
    [pc         |-> "execute",
     kwargs     |-> kwargs,
     new_kwargs |-> prepare_model_to_save(kwargs),
     instance   |-> Model(kwargs),
     events     |-> <<"pre_save">>]

\* create() from the insert round trip to the next suspension
create_execute(p, table) ==
    LET ins == Insert(table, p.new_kwargs)
        pk == ins.pk
        inst1 == IF "id" \notin DOMAIN p.kwargs /\ "id" \in DOMAIN p.new_kwargs
                 THEN [p.instance EXCEPT !.id = p.new_kwargs.id]
                 ELSE p.instance
        inst2 == IF pk # None /\ pk # 0 THEN [inst1 EXCEPT !.id = pk] ELSE inst1
        needs_load == \E name \in ServerDefaultFields : name \notin DOMAIN p.kwargs
    IN [albums |-> ins.table,
        proc   |-> [p EXCEPT !.pc = IF needs_load THEN "load" ELSE "finish",
                             !.instance = inst2,
                             !.events = Append(@, "execute")]]

\* instance.load(): the fields of the instance read back by primary key
load(instance, table) ==
    LET row == CHOOSE r \in table : r.id = instance.id
    IN [instance EXCEPT !.a = row.a, !.b = row.b]

\* create() going on without the values read back
create_load_skipped(p, table) ==
    [p EXCEPT !.pc = "finish", !.events = Append(@, "load")]

\* create() from the reload of server defaults to the next suspension
create_load(p, table) ==
    [p EXCEPT !.pc = "finish",
              !.instance = load(p.instance, table),
              !.events = Append(@, "load")]

\* the end of create() with the post_save signal sent before the instance is
\* flagged
create_finish_signal_first(p) ==
    [p EXCEPT !.pc = "done",
              !.instance = [p.instance EXCEPT !.saved = TRUE],
              !.events = @ \o <<"post_save", "set_save_status">>]

\* create() from set_save_status to its return
create_finish(p) ==
    [p EXCEPT !.pc = "done",
              !.instance = [p.instance EXCEPT !.saved = TRUE],
              !.events = @ \o <<"set_save_status", "post_save">>]

RECURSIVE InsertMany(_, _)
\* database.execute_many(table.insert(), ready_objects)
InsertMany(table, ready_objects) ==
    IF ready_objects = <<>> THEN table
    ELSE InsertMany(Insert(table, Head(ready_objects)).table, Tail(ready_objects))

Flagged(objects) == [i \in DOMAIN objects |-> [objects[i] EXCEPT !.saved = TRUE]]

bulk_create(objects, table) ==
    LET ready_objects == [i \in DOMAIN objects |->
                             prepare_model_to_save(dict(objects[i]))]
    IN [outcome |-> "ok",
        albums  |-> InsertMany(table, ready_objects),
        value   |-> Flagged(objects),
        calls   |-> <<"execute_many">>,
        events  |-> <<"execute_many", "set_save_status">>]

RECURSIVE UpdateMany(_, _, _)
\* database.execute_many(update ... where pk = :new_pk, ready_objects): one row
\* update per object, setting the columns named in `columns`
UpdateMany(table, ready_objects, columns) ==
    IF ready_objects = <<>> THEN table
    ELSE LET o == Head(ready_objects)
             set == { k \in Range(columns) : k # "id" /\ k \in {"id", "a", "b"} }
         IN UpdateMany({ IF "id" \in DOMAIN o /\ r.id = o.id
                         THEN [f \in DOMAIN r |->
                                  IF f \in set /\ f \in DOMAIN o THEN o[f] ELSE r[f]]
                         ELSE r : r \in table },
                       Tail(ready_objects), columns)

\* the columns bulk_update() writes: the given ones, or every field when none
\* are given (<<>> stands for None and for the empty list), and the primary key
UpdateColumns(columns) ==
    LET given == IF columns = <<>>
                 THEN <<"id", "a", "b", "tracks">>
                 ELSE columns
    IN IF Contains(given, "id") THEN given ELSE Append(given, "id")

\* bulk_update() that writes each object as soon as it has been looked at
bulk_update_write_as_you_go(objects, columns, table) ==
    LET cols == UpdateColumns(columns)
        bad == { i \in DOMAIN objects : objects[i].id = None }
        n == IF bad = {} THEN Len(objects)
             ELSE (CHOOSE i \in bad : \A j \in bad : i <= j) - 1
        ready_objects == [i \in 1..n |->
                             [k \in Range(cols) \cap {"id", "a", "b"} |->
                                 dict(objects[i])[k]]]
    IN [outcome |-> IF bad = {} THEN "ok" ELSE "ModelPersistenceError",
        albums  |-> UpdateMany(table, ready_objects, cols),
        value   |-> IF bad = {} THEN Flagged(objects) ELSE objects,
        calls   |-> IF n = 0 THEN <<>> ELSE <<"execute_many">>,
        events  |-> IF bad = {} THEN <<"execute_many", "set_save_status">>
                    ELSE IF n = 0 THEN <<>> ELSE <<"execute_many">>]

bulk_update(objects, columns, table) ==
    LET cols == UpdateColumns(columns)
        ready_objects == [i \in DOMAIN objects |->
                             [k \in Range(cols) \cap {"id", "a", "b"} |->
                                 dict(objects[i])[k]]]
    IN IF \E i \in DOMAIN objects : objects[i].id = None
       THEN [outcome |-> "ModelPersistenceError", albums |-> table,
             value |-> objects, calls |-> <<>>, events |-> <<>>]
       ELSE [outcome |-> "ok",
             albums  |-> UpdateMany(table, ready_objects, cols),
             value   |-> Flagged(objects),
             calls   |-> <<"execute_many">>,
             events  |-> <<"execute_many", "set_save_status">>]

\* the kwargs create() is called with: the primary key left out, None or a
\* value no row has yet; column b left out or given
CreateKwargs(table) ==
    { [a |-> v] : v \in Vals }
    \cup { [a |-> v, b |-> 2] : v \in Vals }
    \cup { [id |-> None, a |-> v] : v \in Vals }
    \cup { [id |-> i, a |-> 1, b |-> 2] :
           i \in (1..(MaxRows + 1)) \ { r.id : r \in table } }

\* lists of one or two elements of S
Lists(S) == { <<x>> : x \in S } \cup { <<x, y>> : x \in S, y \in S }

\* unsaved instances for bulk_create()
NewObjects == { [id |-> None, a |-> v, b |-> 2, saved |-> FALSE] : v \in Vals }

\* instances for bulk_update(): modified since they were loaded, or never
\* saved and without a primary key
UpdateObjects ==
    [id : 1..MaxRows, a : {2}, b : {2}, saved : {FALSE}]
    \cup {[id |-> None, a |-> 2, b |-> 2, saved |-> FALSE]}

CreateStart ==
    /\ proc.pc = "idle"
    /\ Cardinality(albums) < MaxRows
    /\ \E kwargs \in CreateKwargs(albums) : proc' = create_start(kwargs)
    /\ last' = NoOp
    /\ UNCHANGED <<heap, descs, calls, albums, tracks>>

CreateExecute ==
    /\ proc.pc = "execute"
    /\ LET r == create_execute(proc, albums)
       IN /\ albums' = r.albums
          /\ proc' = r.proc
    /\ UNCHANGED <<heap, descs, calls, tracks, last>>

CreateLoad ==
    /\ proc.pc = "load"
    /\ proc' = create_load(proc, albums)
    /\ UNCHANGED <<heap, descs, calls, albums, tracks, last>>

\* `via` names the operation that called create(), if one did
CreateFinish ==
    /\ proc.pc = "finish"
    /\ LET p == create_finish(proc)
       IN last' = IF "via" \in DOMAIN p
                  THEN [op |-> p.via, kwargs |-> p.given, created |-> <<p.kwargs>>,
                        before |-> p.before, albums |-> albums, outcome |-> "ok",
                        value |-> <<p.instance>>, events |-> p.events]
                  ELSE [op |-> "create", kwargs |-> p.kwargs, outcome |-> "ok",
                        value |-> <<p.instance>>, events |-> p.events]
    /\ proc' = Idle
    /\ UNCHANGED <<heap, descs, calls, albums, tracks>>

\* Album.objects.get(pk=p); `after` keeps the operation that ran before it
GetByPk ==
    /\ proc.pc = "idle"
    /\ \E p \in 1..(MaxRows + 1) :
          LET kwargs == <<Clause("pk", p)>>
          IN last' = [op |-> "get", q |-> 1, kwargs |-> kwargs,
                      after |-> [op |-> last.op,
                                 value |-> IF last.op = "create" THEN last.value
                                           ELSE <<>>]]
                     @@ get(heap, descs[1], kwargs)
    /\ UNCHANGED <<heap, descs, calls, albums, tracks, proc>>

BulkCreate ==
    /\ proc.pc = "idle"
    /\ \E objects \in Lists(NewObjects) :
          /\ Cardinality(albums) + Len(objects) <= MaxRows
          /\ LET r == bulk_create(objects, albums)
             IN /\ albums' = r.albums
                /\ last' = [op |-> "bulk_create", objects |-> objects,
                            before |-> albums] @@ r
    /\ UNCHANGED <<heap, descs, calls, tracks, proc>>

BulkUpdate ==
    /\ proc.pc = "idle"
    /\ \E objects \in Lists(UpdateObjects), columns \in {<<>>, <<"a">>} :
          LET r == bulk_update(objects, columns, albums)
          IN /\ albums' = r.albums
             /\ last' = [op |-> "bulk_update", objects |-> objects,
                         columns |-> columns, before |-> albums] @@ r
    /\ UNCHANGED <<heap, descs, calls, tracks, proc>>

\* **kwargs as filter clauses
KwClauses(kwargs) ==
    LET names == SelectSeq(<<"pk", "id", "a", "b">>, LAMBDA f : f \in DOMAIN kwargs)
    IN [i \in DOMAIN names |-> Clause(names[i], kwargs[names[i]])]

\* try ... except NoMatch: whether the result of get() leads to create()
except_NoMatch(r) ==
    [create |-> r.outcome = "NoMatch", outcome |-> r.outcome, value |-> r.value]

\* get_or_create() that does not look first
get_or_create_without_get(h, self, kwargs) ==
    [create |-> TRUE, outcome |-> "NoMatch", value |-> <<>>]

\* get_or_create() up to its first return or to the call of create(): what
\* get(**kwargs) gave and whether create(**kwargs) is called
get_or_create(h, self, kwargs) == except_NoMatch(get(h, self, KwClauses(kwargs)))

\* create() called by another operation: `via` names the caller, `given` its
\* kwargs and `before` the table when it was called
CalledVia(via, given, kwargs, table) ==
    LET p == create_start(kwargs)
    IN [via |-> via, given |-> given, before |-> table, pc |-> p.pc,
        kwargs |-> p.kwargs, new_kwargs |-> p.new_kwargs, instance |-> p.instance,
        events |-> p.events]

GetOrCreate ==
    /\ proc.pc = "idle"
    /\ \E kwargs \in { [a |-> v] : v \in Vals } \cup { [a |-> v, b |-> 2] : v \in Vals } :
          \E r \in {get_or_create(heap, descs[1], kwargs)} :
             \/ /\ r.create
                /\ Cardinality(albums) < MaxRows
                /\ proc' = CalledVia("get_or_create", kwargs, kwargs, albums)
                /\ last' = NoOp
             \/ /\ ~r.create
                /\ proc' = proc
                /\ last' = [op |-> "get_or_create", kwargs |-> kwargs,
                            created |-> <<>>, before |-> albums, albums |-> albums,
                            outcome |-> r.outcome, value |-> r.value,
                            events |-> <<>>]
    /\ UNCHANGED <<heap, descs, calls, albums, tracks>>

\* Model.update(**kwargs): the fields set on the instance and written to its row
model_update(model, kwargs, table) ==
    LET set == DOMAIN kwargs \cap {"a", "b"}
        new == [f \in DOMAIN model |-> IF f \in set THEN kwargs[f] ELSE model[f]]
    IN [albums |-> { IF r.id = model.id
                     THEN [f \in DOMAIN r |-> IF f \in set THEN kwargs[f] ELSE r[f]]
                     ELSE r : r \in table },
        value  |-> <<new>>]

\* model = await self.get(pk=...); return await model.update(**kwargs), where
\* r is what get() gave
updated(r, kwargs, table) ==
    IF r.outcome = "ok"
    THEN [create |-> FALSE, kwargs |-> kwargs, outcome |-> "ok"]
         @@ model_update(r.value[1], kwargs, table)
    ELSE [create |-> FALSE, kwargs |-> kwargs, outcome |-> r.outcome,
          albums |-> table, value |-> <<>>]

\* update_or_create(): kwargs with "pk" renamed to the primary key name; then
\* either the call of create(**kwargs) or get(pk=...) and model.update(**kwargs)
update_or_create(h, self, given, table) ==
    LET kwargs == IF "pk" \in DOMAIN given
                  THEN [f \in (DOMAIN given \ {"pk"}) \cup {"id"} |->
                           IF f = "id" THEN given.pk ELSE given[f]]
                  ELSE given
    IN IF "id" \notin DOMAIN kwargs \/ kwargs.id = None
       THEN [create |-> TRUE, kwargs |-> kwargs]
       ELSE updated(get(h, self, <<Clause("pk", kwargs.id)>>), kwargs, table)

\* the kwargs update_or_create() is called with: without primary key, with
\* None, and with a primary key under either of its names
UpdateOrCreateKwargs ==
    { [a |-> v] : v \in Vals }
    \cup { [id |-> None, a |-> 2, b |-> 2] }
    \cup { [id |-> i, a |-> 2] : i \in 1..MaxRows }
    \cup { [pk |-> i, a |-> 1, b |-> 2] : i \in 1..MaxRows }

UpdateOrCreate ==
    /\ proc.pc = "idle"
    /\ \E given \in UpdateOrCreateKwargs :
          \E r \in {update_or_create(heap, descs[1], given, albums)} :
             \/ /\ r.create
                /\ Cardinality(albums) < MaxRows
                /\ proc' = CalledVia("update_or_create", given, r.kwargs, albums)
                /\ last' = NoOp
                /\ albums' = albums
             \/ /\ ~r.create
                /\ proc' = proc
                /\ albums' = r.albums
                /\ last' = [op |-> "update_or_create", kwargs |-> given,
                            created |-> <<>>, before |-> albums,
                            albums |-> r.albums, outcome |-> r.outcome,
                            value |-> r.value, events |-> <<>>]
    /\ UNCHANGED <<heap, descs, calls, tracks>>

InitCreate ==
    /\ InitObjects
    /\ albums = {}
    /\ tracks = {}
    /\ last = NoOp
    /\ proc = Idle

NextCreate ==
    \/ CreateStart
    \/ CreateExecute
    \/ CreateLoad
    \/ CreateFinish
    \/ GetByPk
    \/ BulkCreate
    \/ BulkUpdate
    \/ GetOrCreate
    \/ UpdateOrCreate

SpecCreate == InitCreate /\ [][NextCreate]_vars

\* C6: bulk_update() on a list holding an instance without a primary key, at
\* any position, raises ModelPersistenceError, writes nothing to the database
\* and leaves the persisted flag of every instance as it was.
C6_BulkUpdateAllOrNothing ==
    ( /\ last.op = "bulk_update"
      /\ \E i \in DOMAIN last.objects : last.objects[i].id = None ) =>
        /\ last.outcome = "ModelPersistenceError"
        /\ last.calls = <<>>
        /\ last.albums = last.before
        /\ \A i \in DOMAIN last.objects :
              last.value[i].saved = last.objects[i].saved

\* the second instance lacks the primary key and the first one names a row
\* whose values differ from the instance's
C6_Witness ==
    /\ last.op = "bulk_update"
    /\ Len(last.objects) = 2
    /\ last.objects[1].id # None
    /\ last.objects[2].id = None
    /\ \E r \in last.before :
          r.id = last.objects[1].id /\ r.a # last.objects[1].a
    /\ last.outcome = "ModelPersistenceError"

\* C9: create() returns an instance with the primary key set, also when the
\* kwargs left it out, and get(pk=<that key>) right after it returns an
\* instance with the same field values.
C9_CreateGetRoundTrip ==
    /\ last.op = "create" =>
          /\ last.value[1].id # None
          /\ \E r \in albums : r.id = last.value[1].id
    /\ ( /\ last.op = "get"
         /\ last.after.op = "create"
         /\ last.kwargs = <<Clause("pk", last.after.value[1].id)>> ) =>
          /\ last.outcome = "ok"
          /\ \A f \in {"id", "a", "b"} :
                last.value[1][f] = last.after.value[1][f]

\* get(pk=...) found the instance create() made from kwargs without primary
\* key and without the server-default column, in a table of two rows
C9_Witness ==
    /\ last.op = "get"
    /\ last.after.op = "create"
    /\ last.kwargs = <<Clause("pk", last.after.value[1].id)>>
    /\ last.outcome = "ok"
    /\ last.value[1].b = ServerDefault
    /\ Cardinality(albums) = 2

\* the steps of a create() call with the given kwargs
Expected(kwargs) ==
    <<"pre_save", "execute">>
    \o (IF \E name \in ServerDefaultFields : name \notin DOMAIN kwargs
        THEN <<"load">> ELSE <<>>)
    \o <<"set_save_status", "post_save">>

IsPrefix(s, t) == Len(s) <= Len(t) /\ SubSeq(t, 1, Len(s)) = s

\* C10: create() sends one pre_save before the insert and one post_save after
\* the insert, the reload of server defaults and set_save_status;
\* bulk_create() and bulk_update() send neither signal.
C10_SaveSignals ==
    /\ proc.pc # "idle" =>
          /\ IsPrefix(proc.events, Expected(proc.kwargs))
          /\ proc.pc = "execute" => proc.events = <<"pre_save">>
    /\ last.op = "create" => last.events = Expected(last.kwargs)
    /\ last.op \in {"bulk_create", "bulk_update"} =>
          Range(last.events) \cap {"pre_save", "post_save"} = {}

\* a create() that reloaded the server default has returned
C10_Witness ==
    /\ last.op = "create"
    /\ Contains(last.events, "load")
    /\ last.value[1].saved

\* the rows of a table whose columns hold the values of kwargs
Holding(table, kwargs) ==
    { r \in table : \A f \in DOMAIN kwargs \cap {"id", "a", "b"} :
                       kwargs[f] = None \/ r[f] = kwargs[f] }

\* C11: get_or_create(**kwargs) returns the one matching row and inserts
\* nothing; with no matching row it calls create once with the same kwargs;
\* with several matching rows MultipleMatches is raised and nothing is inserted.
C11_GetOrCreate ==
    last.op = "get_or_create" =>
        LET n == Cardinality(Holding(last.before, last.kwargs))
        IN /\ n = 1 => /\ last.outcome = "ok"
                       /\ \E r \in Holding(last.before, last.kwargs) :
                             \A f \in {"id", "a", "b"} : last.value[1][f] = r[f]
                       /\ last.albums = last.before
                       /\ last.created = <<>> /\ last.events = <<>>
           /\ n = 0 => /\ last.outcome = "ok"
                       /\ last.created = <<last.kwargs>>
                       /\ Len(SelectSeq(last.events, LAMBDA e : e = "execute")) = 1
                       /\ Cardinality(last.albums) = Cardinality(last.before) + 1
                       /\ last.before \subseteq last.albums
                       /\ \E r \in Holding(last.albums, last.kwargs) :
                             r.id = last.value[1].id
           /\ n > 1 => /\ last.outcome = "MultipleMatches"
                       /\ last.albums = last.before
                       /\ last.created = <<>> /\ last.events = <<>>

\* get_or_create() found no row among the rows of the table and created one
C11_Witness ==
    /\ last.op = "get_or_create"
    /\ last.before # {}
    /\ Holding(last.before, last.kwargs) = {}
    /\ last.created = <<last.kwargs>>
    /\ last.value[1].saved

\* C12: update_or_create(**kwargs), with or without a primary key in kwargs,
\* ends with a row holding the given values, returns its instance and never
\* fails with NoMatch.
C12_UpdateOrCreate ==
    last.op = "update_or_create" =>
        /\ last.outcome = "ok"
        /\ \E r \in Holding(last.albums,
                            IF "pk" \in DOMAIN last.kwargs
                            THEN [id |-> last.kwargs.pk] @@ last.kwargs
                            ELSE last.kwargs) :
              r.id = last.value[1].id

-----------------------------------------------------------------------------
(* Further properties of the builder *)

\* the elements of a sequence, each once, in order of first appearance
RECURSIVE FirstSeen(_)
FirstSeen(s) ==
    IF s = <<>> THEN <<>>
    ELSE LET front == FirstSeen(SubSeq(s, 1, Len(s) - 1))
         IN IF Contains(front, s[Len(s)]) THEN front ELSE Append(front, s[Len(s)])

\* every path passed to order_by along the chain of calls that made descs[j]
RECURSIVE PassedPaths(_)
PassedPaths(j) ==
    IF Parent(j) = 0 THEN <<>>
    ELSE PassedPaths(Parent(j)) \o (IF calls[j].op = "order_by" THEN calls[j].args
                                    ELSE <<>>)

\* C13: after any sequence of order_by calls the order-by list holds every path
\* passed, each exactly once, in order of first appearance, also for a path
\* repeated within the list of one call.
C13_OrderByOnce ==
    \A j \in DOMAIN descs : heap[descs[j].order_bys] = FirstSeen(PassedPaths(j))

-----------------------------------------------------------------------------
(* Specification of relation loading: the same QuerySet read once with the
   relation joined and once with the relation prefetched *)

Relational(j) == calls[j].op \in {"select_related", "prefetch_related"}

\* the QuerySet the relation calls are made on: the last one made by another call
Base == CHOOSE j \in DOMAIN descs :
            /\ ~Relational(j)
            /\ \A k \in DOMAIN descs : ~Relational(k) => k <= j

\* chained calls come before the relation calls
LoadChain(op) == IF \A j \in DOMAIN calls : ~Relational(j) THEN Chain(op) ELSE {}

LoadBase(op) == IF NotCalled(op) THEN {Base} ELSE {}

\* all() on a QuerySet made by a relation call; `prev` keeps the result of the
\* all() before it
AllRelational ==
    \E self \in { j \in DOMAIN descs : Relational(j) } :
        /\ IF last = NoOp THEN TRUE ELSE last.prev = <<>> /\ last.q # self
        /\ last' = [op |-> "all", q |-> self, kwargs |-> <<>>,
                    prev |-> IF last = NoOp THEN <<>>
                             ELSE <<[q |-> last.q, value |-> last.value]>>]
                       @@ all(heap, descs[self], <<>>)
        /\ UNCHANGED <<heap, descs, calls, albums, tracks, proc>>

InitLoad ==
    /\ InitObjects
    /\ InitTables([id : AlbumIds, a : {1}, b : {1}])
    /\ last = NoOp
    /\ proc = Idle

NextLoad ==
    \/ OrderBy(LoadChain("order_by"), { <<"-id">> })
    \/ Limit(LoadChain("limit"))
    \/ SelectRelated(LoadBase("select_related"), { <<"tracks">> })
    \/ PrefetchRelated(LoadBase("prefetch_related"), { <<"tracks">> })
    \/ AllRelational

SpecLoad == InitLoad /\ [][NextLoad]_vars

-----------------------------------------------------------------------------
(* Specification of two tasks that build on one shared QuerySet; builder
   methods do not suspend, so the tasks interleave call by call *)

Tasks == {1, 2}

\* what each task passes: its own clause, relation path, mask entry and sort path
TaskKwargs(t) == <<Clause("a", t)>>
TaskRelated(t) == IF t = 1 THEN <<"tracks">> ELSE <<"artist">>
TaskColumns(t) == [kind |-> "list", names |-> IF t = 1 THEN <<"a">> ELSE <<"b">>]
TaskOrder(t) == IF t = 1 THEN <<"a">> ELSE <<"-id">>

\* task t called op on the QuerySet it holds and now holds the one returned
TaskBuilt(t, r, op, args) ==
    /\ op \notin proc.done[t]
    /\ Len(descs) < MaxDescs + 2
    /\ heap' = r.h
    /\ descs' = Append(descs, r.q)
    /\ calls' = Append(calls, [op |-> op, self |-> proc.cur[t], args |-> args])
    /\ proc' = [proc EXCEPT !.cur[t] = Len(descs) + 1, !.done[t] = @ \cup {op}]
    /\ UNCHANGED <<albums, tracks, last>>

TaskFilter ==
    \E t \in Tasks :
        TaskBuilt(t, filter(heap, descs[proc.cur[t]], FALSE, TaskKwargs(t)),
                  "filter", TaskKwargs(t))

TaskSelectRelated ==
    \E t \in Tasks :
        \E order \in Perms(Range(heap[descs[proc.cur[t]]._select_related])
                           \cup Range(TaskRelated(t))) :
            TaskBuilt(t, select_related(heap, descs[proc.cur[t]], TaskRelated(t), order),
                      "select_related", TaskRelated(t))

TaskFields ==
    \E t \in Tasks :
        TaskBuilt(t, fields(heap, descs[proc.cur[t]], TaskColumns(t)),
                  "fields", TaskColumns(t))

TaskOrderBy ==
    \E t \in Tasks :
        TaskBuilt(t, order_by(heap, descs[proc.cur[t]], TaskOrder(t)),
                  "order_by", TaskOrder(t))

InitTasks ==
    /\ InitObjects
    /\ albums = {}
    /\ tracks = {}
    /\ last = NoOp
    /\ proc = [pc |-> "idle", cur |-> [t \in Tasks |-> 1], done |-> [t \in Tasks |-> {}]]

NextTasks ==
    \/ TaskFilter
    \/ TaskSelectRelated
    \/ TaskFields
    \/ TaskOrderBy

SpecTasks == InitTasks /\ [][NextTasks]_vars

\* the QuerySet descs[j] as the calls of its own chain give it when nothing
\* else runs: the chain replayed from a new Album.objects
RECURSIVE Alone(_)
Alone(j) ==
    IF Parent(j) = 0 THEN __get__(<<>>, "Album")
    ELSE LET p == Alone(Parent(j))
             c == calls[j]
         IN CASE c.op = "filter" -> filter(p.h, p.q, FALSE, c.args)
              [] c.op = "fields" -> fields(p.h, p.q, c.args)
              [] c.op = "order_by" -> order_by(p.h, p.q, c.args)
              [] c.op = "select_related" ->
                   LET orders == Perms(Range(p.h[p.q._select_related]) \cup Range(c.args))
                       got == heap[descs[j]._select_related]
                   IN select_related(p.h, p.q, c.args,
                                     IF got \in orders THEN got
                                     ELSE CHOOSE o \in orders : TRUE)

\* C15: with two tasks interleaving builder calls from one shared QuerySet,
\* every QuerySet, the shared one included, holds what the calls of its own
\* chain give when run alone.
C15_TasksIsolated ==
    \A j \in DOMAIN descs :
        Contents(heap, descs[j]) = Contents(Alone(j).h, Alone(j).q)

\* the tasks took turns: 1, 2, 1, 2, and both have filtered
C15_Witness ==
    /\ Len(descs) >= 5
    /\ Parent(2) = 1 /\ Parent(3) = 1 /\ Parent(4) = 2 /\ Parent(5) = 3
    /\ \A t \in Tasks : "filter" \in proc.done[t]
    /\ proc.cur[1] # proc.cur[2]

-----------------------------------------------------------------------------
(* Specification of pagination: limit and offset on the root table alone *)

InitPage ==
    /\ InitObjects
    /\ albums \in AlbumTables([id : 1..(MaxRows + 1), a : {1}, b : {1}])
    /\ tracks = {}
    /\ last = NoOp
    /\ proc = Idle

NextPage ==
    \/ Limit(Chain("limit"))
    \/ Offset(Chain("offset"))
    \/ All({ <<>> })

SpecPage == InitPage /\ [][NextPage]_vars

\* what Album.objects.all() returns: the QuerySet without limit and offset
Unpaged == all(heap, descs[1], <<>>).value

\* the number passed to the one call of op (limit or offset)
Passed(op) == calls[CHOOSE j \in DOMAIN calls : calls[j].op = op].args.n

\* C16: without ordering and joins, limit(n).offset(k).all() returns the
\* instances at positions k .. k+n-1 of what all() returns without limit and
\* offset, which is in primary-key order.
C16_LimitOffsetWindow ==
    (last.op = "all" /\ ~NotCalled("limit") /\ ~NotCalled("offset")) =>
        /\ last.value = SubSeq(Unpaged, Passed("offset") + 1,
                               Min(Len(Unpaged), Passed("offset") + Passed("limit")))
        /\ \A i, j \in DOMAIN Unpaged : i < j => Unpaged[i].id < Unpaged[j].id

\* limit(1).offset(1) on three rows returns the second row
C16_Witness ==
    /\ last.op = "all"
    /\ ~NotCalled("limit") /\ ~NotCalled("offset")
    /\ Passed("limit") = 1
    /\ Passed("offset") = 1
    /\ Cardinality(albums) = 3
    /\ Len(last.value) = 1
    /\ last.value[1].id = 2

-----------------------------------------------------------------------------
(* Specification of filtering across a relation *)

\* kwargs whose field path crosses relation tracks
CrossKwargs == { <<Clause("tracks__id", 1)>>, <<Clause("a", 1), Clause("tracks__id", 2)>> }

FilterAcross(S) ==
    \E self \in S, kwargs \in CrossKwargs :
        Built(filter(heap, descs[self], FALSE, kwargs), self, "filter", kwargs)

InitCross ==
    /\ InitObjects
    /\ InitTables([id : AlbumIds, a : {1}, b : {1}])
    /\ last = NoOp
    /\ proc = Idle

NextCross ==
    \/ SelectRelated(Chain("select_related"), { <<"artist">> })
    \/ OrderBy(Chain("order_by"), { <<"-id">> })
    \/ FilterAcross(Chain("filter"))
    \/ All({ <<>> })

SpecCross == InitCross /\ [][NextCross]_vars

\* C17: filter(**kwargs) with a field path across a relation that was not
\* select-related returns a QuerySet whose select-related set contains the
\* relation and all of the original's, and all() on it returns roots with the
\* related instances of that relation populated.
C17_FilterJoinsRelation ==
    /\ \A j \in DOMAIN descs :
          (calls[j].op = "filter" /\ Crossed(calls[j].args) # <<>>) =>
              /\ Range(heap[descs[Parent(j)]._select_related])
                    \subseteq Range(heap[descs[j]._select_related])
              /\ Range(Crossed(calls[j].args))
                    \subseteq Range(heap[descs[j]._select_related])
    /\ (last.op = "all" /\ ~NotCalled("filter")) =>
          \A i \in DOMAIN last.value :
              /\ last.value[i].tracks # <<>>
              /\ \A k \in DOMAIN last.value[i].tracks :
                    [id |-> last.value[i].tracks[k], album |-> last.value[i].id]
                        \in tracks

\* the QuerySet filtered had no relation tracks selected and all() on the
\* filtered one returned a root with its related instance
C17_Witness ==
    /\ last.op = "all"
    /\ ~NotCalled("filter")
    /\ \E j \in DOMAIN descs :
          /\ calls[j].op = "filter"
          /\ ~Contains(heap[descs[Parent(j)]._select_related], "tracks")
          /\ Contains(heap[descs[Parent(j)]._select_related], "artist")
    /\ last.value # <<>>
    /\ Cardinality(albums) >= 2

-----------------------------------------------------------------------------
(* Specification of get() without criteria *)

InitLast ==
    /\ InitObjects
    /\ InitTables([id : AlbumIds, a : {1}, b : {1}])
    /\ last = NoOp
    /\ proc = Idle

NextLast ==
    \/ Exclude(Chain("exclude"))
    \/ Offset(Chain("offset"))
    \/ OrderBy(Chain("order_by"), { <<"a">> })
    \/ SelectRelated(Chain("select_related"), { <<"tracks">> })
    \/ Get({ <<>> })

SpecLast == InitLast /\ [][NextLast]_vars

\* the outcome C18 names: the row with the greatest primary key, or NoMatch
\* when the table is empty
LastRow ==
    IF albums = {} THEN last.outcome = "NoMatch"
    ELSE /\ last.outcome = "ok"
         /\ last.value[1].id = Max({ r.id : r \in albums })

\* C18 as stated: get() without kwargs on a QuerySet without filter clauses
\* returns the row with the greatest primary key when the table has rows, never
\* raising MultipleMatches, and raises NoMatch when the table is empty.
C18_GetLast ==
    ( /\ last.op = "get"
      /\ last.kwargs = <<>>
      /\ heap[descs[last.q].filter_clauses] = <<>> ) => LastRow

\* C18 amended: the same for a QuerySet with no filter clauses, no exclude
\* clauses and no offset.
C18_GetLastUnrestricted ==
    ( /\ last.op = "get"
      /\ last.kwargs = <<>>
      /\ heap[descs[last.q].filter_clauses] = <<>>
      /\ heap[descs[last.q].exclude_clauses] = <<>>
      /\ descs[last.q].query_offset \in {None, 0} ) => LastRow

\* get() on the joined and ordered QuerySet over two roots, the last of them
\* with several physical rows
C18_Witness ==
    /\ last.op = "get"
    /\ last.kwargs = <<>>
    /\ heap[descs[last.q].exclude_clauses] = <<>>
    /\ descs[last.q].query_offset \in {None, 0}
    /\ Cardinality(albums) >= 2
    /\ Len(last.rows) >= 2
    /\ heap[descs[last.q].order_bys] # <<>>
    /\ last.outcome = "ok"

-----------------------------------------------------------------------------
(* Frame of the builder methods *)

\* the component of a QuerySet a builder method sets
Target(op) ==
    CASE op = "select_related"   -> "_select_related"
      [] op = "prefetch_related" -> "_prefetch_related"
      [] op = "fields"           -> "_columns"
      [] op = "exclude_fields"   -> "_exclude_columns"
      [] op = "order_by"         -> "order_bys"
      [] op = "limit"            -> "limit_count"
      [] op = "offset"           -> "query_offset"

\* C19: select_related, prefetch_related, fields, exclude_fields, order_by,
\* limit and offset return a QuerySet equal to the original in the model type
\* and in every component but the one the call sets; the raw-row flag changes
\* only under limit / offset called with the flag, to the flag passed.
C19_Frame ==
    \A j \in DOMAIN descs :
        calls[j].op \in {"select_related", "prefetch_related", "fields",
                         "exclude_fields", "order_by", "limit", "offset"} =>
            LET new == Contents(heap, descs[j])
                old == Contents(heap, descs[Parent(j)])
            IN /\ \A c \in DOMAIN new \ {Target(calls[j].op), "limit_sql_raw"} :
                     new[c] = old[c]
               /\ new.limit_sql_raw =
                     IF calls[j].op \in {"limit", "offset"} /\ calls[j].args.raw # "None"
                     THEN calls[j].args.raw = "True"
                     ELSE old.limit_sql_raw

\* limit() without the flag on a QuerySet whose offset and flag were set
C19_Witness ==
    \E j \in DOMAIN descs :
        /\ calls[j].op = "limit"
        /\ calls[j].args.raw = "None"
        /\ descs[Parent(j)].limit_sql_raw
        /\ descs[Parent(j)].query_offset = 1
        /\ descs[j].limit_sql_raw
        /\ descs[j].query_offset = 1

-----------------------------------------------------------------------------
(* Clauses collected over a chain of filter and exclude calls *)

\* the clauses passed to the calls of method op along the chain that made
\* descs[j]
RECURSIVE PassedClauses(_, _)
PassedClauses(j, op) ==
    IF Parent(j) = 0 THEN <<>>
    ELSE PassedClauses(Parent(j), op) \o (IF calls[j].op = op THEN calls[j].args
                                          ELSE <<>>)

\* C20: after any sequence of filter and exclude calls the exclude clauses hold
\* the clauses of every exclude call made so far and no clause that only a
\* filter call introduced, and the filter clauses are exactly the clauses of
\* the filter calls.
C20_ClauseLists ==
    \A j \in DOMAIN descs :
        LET excluded == Range(PassedClauses(j, "exclude"))
            filtered == Range(PassedClauses(j, "filter"))
        IN /\ excluded \subseteq Range(heap[descs[j].exclude_clauses])
           /\ Range(heap[descs[j].exclude_clauses]) \cap filtered \subseteq excluded
           /\ heap[descs[j].filter_clauses] = PassedClauses(j, "filter")

-----------------------------------------------------------------------------
(* update() and delete() against all() of the same QuerySet *)

\* C21: update() and delete() affect exactly the rows all() of the same
\* QuerySet would return: the rows an earlier exclude() removed from the result
\* are neither updated nor deleted, and a QuerySet with only exclude clauses
\* counts as filtered for the check that refuses an unfiltered call.
C21_AffectsWhatAllReturns ==
    last.op \in {"update", "delete"} =>
        /\ last.outcome = "ok" =>
              /\ last.value = Cardinality(last.selected)
              /\ \A r \in last.before : r.id \notin last.selected => r \in albums
              /\ last.op = "delete" =>
                    \A r \in last.before : r.id \in last.selected => r \notin albums
        /\ heap[descs[last.q].exclude_clauses] # <<>> => last.outcome = "ok"

-----------------------------------------------------------------------------
(* Specification of counting: count() beside all() of the same QuerySet *)

\* count(): SELECT count(*) over the compiled select as a subquery, the number
\* of physical rows the select gives
count(h, self) ==
    Len(fetch_all(build_select_expression(h, self, None, None, <<>>)))

Count ==
    /\ last' = [op |-> "count", q |-> Cur, value |-> count(heap, descs[Cur]),
                roots |-> Len(all(heap, descs[Cur], <<>>).value)]
    /\ UNCHANGED <<heap, descs, calls, albums, tracks, proc>>

InitCount ==
    /\ InitObjects
    /\ InitTables([id : AlbumIds, a : Vals, b : {1}])
    /\ last = NoOp
    /\ proc = Idle

NextCount ==
    \/ Filter(Chain("filter"))
    \/ SelectRelated(Chain("select_related"), { <<"tracks">> })
    \/ Count

SpecCount == InitCount /\ [][NextCount]_vars

\* C22: count() equals the number of root models all() returns for the same
\* QuerySet and data, also when select_related joins the to-many relation and
\* one root comes in several physical rows.
C22_CountIsRoots ==
    last.op = "count" => last.value = last.roots

-----------------------------------------------------------------------------
(* Specification of two tasks in get_or_create() with the same kwargs: a task
   runs until it awaits a database round trip, and the round trips of the two
   tasks complete in any order *)

\* the task has returned
Returned(outcome, value, created) ==
    [pc |-> "done", outcome |-> outcome, value |-> value, created |-> created]

\* the round trip of `await self.get(**kwargs)` of task t, up to the return or
\* to the insert create() awaits
RaceGet ==
    \E t \in Tasks :
        /\ proc.task[t].pc = "get"
        /\ \E r \in {get_or_create(heap, descs[1], proc.kwargs)} :
              proc' = [proc EXCEPT !.task[t] =
                          IF r.create
                          THEN CalledVia("get_or_create", proc.kwargs, proc.kwargs,
                                         albums)
                          ELSE Returned(r.outcome, r.value, FALSE)]
        /\ UNCHANGED <<heap, descs, calls, albums, tracks, last>>

RaceExecute ==
    \E t \in Tasks :
        /\ proc.task[t].pc = "execute"
        /\ \E r \in {create_execute(proc.task[t], albums)} :
              /\ albums' = r.albums
              /\ proc' = [proc EXCEPT !.task[t] = r.proc]
        /\ UNCHANGED <<heap, descs, calls, tracks, last>>

RaceLoad ==
    \E t \in Tasks :
        /\ proc.task[t].pc = "load"
        /\ proc' = [proc EXCEPT !.task[t] = create_load(proc.task[t], albums)]
        /\ UNCHANGED <<heap, descs, calls, albums, tracks, last>>

RaceFinish ==
    \E t \in Tasks :
        /\ proc.task[t].pc = "finish"
        /\ proc' = [proc EXCEPT !.task[t] =
                       Returned("ok", <<create_finish(proc.task[t]).instance>>, TRUE)]
        /\ UNCHANGED <<heap, descs, calls, albums, tracks, last>>

InitRace ==
    /\ InitObjects
    /\ albums \in AlbumTables([id : AlbumIds, a : Vals, b : Vals])
    /\ tracks = {}
    /\ last = NoOp
    /\ \E kwargs \in { [a |-> v] : v \in Vals } \cup { [a |-> v, b |-> 2] : v \in Vals } :
          proc = [kwargs |-> kwargs, before |-> albums,
                  task |-> [t \in Tasks |-> [pc |-> "get"]]]

NextRace ==
    \/ RaceGet
    \/ RaceExecute
    \/ RaceLoad
    \/ RaceFinish

SpecRace == InitRace /\ [][NextRace]_vars

\* C23: two tasks in get_or_create() with the same kwargs, started on a table
\* with no matching row and interleaved at their round trips, leave exactly one
\* matching row, and both return an instance of that row.
C23_OneRowForBoth ==
    ( /\ \A t \in Tasks : proc.task[t].pc = "done"
      /\ Holding(proc.before, proc.kwargs) = {} ) =>
        /\ Cardinality(Holding(albums, proc.kwargs)) = 1
        /\ \A t \in Tasks :
              /\ proc.task[t].outcome = "ok"
              /\ \E r \in Holding(albums, proc.kwargs) : r.id = proc.task[t].value[1].id

====
